---- MODULE Spec2Model ----
(***************************************************************************)
(* Model of print_json_values (src/json_demo.py, section 9): the recursive *)
(* walker that prints every value of a JSON-like structure, and of the     *)
(* try/except/finally, cleanup, retry, polling, HTTP and AWS sections of   *)
(* the other scripts.                                                      *)
(*                                                                         *)
(* Text is modelled as a sequence of one-character strings, so that the    *)
(* margin, the prefix, the repr() quoting and the separators are all       *)
(* visible to the properties.                                              *)
(***************************************************************************)
EXTENDS Integers, Sequences, FiniteSets, TLC

VARIABLES input, stack, out, cur, visited, phase, memo, calls, peer,
          prog, loc, env, events

vars == <<input, stack, out, cur, visited, phase, memo, calls, peer,
          prog, loc, env, events>>

\* the state of the walker's caller
walker == <<input, stack, out, cur, visited, phase, memo, calls>>

\* the state of the other scripts' sections
script == <<prog, loc, env, events>>

(***************************************************************************)
(* Bounds of the generated inputs.                                         *)
(***************************************************************************)
MaxDepth == 2

MaxWidth == 2

\* the frames the host allows (stands for sys.getrecursionlimit())
StackLimit == 4

(***************************************************************************)
(* JSON-like values: Python objects tagged by their type.                  *)
(***************************************************************************)
MkInt(n) == [t |-> "int", n |-> n]

MkStr(s) == [t |-> "str", s |-> s]

MkBool(b) == [t |-> "bool", b |-> b]

MkNone == [t |-> "none"]

MkDict(ps) == [t |-> "dict", pairs |-> ps]

MkList(es) == [t |-> "list", elems |-> es]

\* a value of a type json never produces: a tuple
MkTuple(xs) == [t |-> "tuple", items |-> xs]

KV(k, v) == [k |-> k, v |-> v]

\* isinstance(obj, dict)
IsDict(v) == v.t = "dict"

\* isinstance(obj, list)
IsList(v) == v.t = "list"

\* isinstance(v, (dict, list))
IsContainer(v) == IsDict(v) \/ IsList(v)

\* number of iterations of the for loop over obj.items() / enumerate(obj)
Width(v) == IF IsDict(v) THEN Len(v.pairs) ELSE IF IsList(v) THEN Len(v.elems) ELSE 0

\* reversed(obj.items()) / reversed(list(enumerate(obj)))
EntriesReversed(v) ==
    IF IsDict(v) THEN [j \in 1..Len(v.pairs) |-> v.pairs[Len(v.pairs) + 1 - j]]
    ELSE [j \in 1..Len(v.elems) |-> KV(Len(v.elems) - j, v.elems[Len(v.elems) + 1 - j])]

\* obj.items() / enumerate(obj): the (k, v) / (i, elem) pairs in iteration order
Entries(v) ==
    IF IsDict(v) THEN v.pairs
    ELSE [j \in 1..Len(v.elems) |-> KV(j - 1, v.elems[j])]

\* the value bound to v / elem in the i-th iteration (i counted from 1)
Item(v, i) == Entries(v)[i].v

(***************************************************************************)
(* Conversions to text.                                                    *)
(***************************************************************************)
Digit(d) == <<"0", "1", "2", "3", "4", "5", "6", "7", "8", "9">>[d + 1]

RECURSIVE NatStr(_)
NatStr(n) == IF n < 10 THEN <<Digit(n)>> ELSE NatStr(n \div 10) \o <<Digit(n % 10)>>

\* str()/repr() of an int
IntRepr(n) == IF n < 0 THEN <<"-">> \o NatStr(0 - n) ELSE NatStr(n)

Has(s, c) == \E j \in 1..Len(s) : s[j] = c

\* the quote repr() chooses for a str
QuoteOf(s) == IF Has(s, "'") /\ ~Has(s, "\"") THEN "\"" ELSE "'"

EscapeChar(c, q) ==
    IF c = "\\" THEN <<"\\", "\\">>
    ELSE IF c = q THEN <<"\\", c>>
    ELSE IF c = "\n" THEN <<"\\", "n">>
    ELSE <<c>>

RECURSIVE Escaped(_, _)
Escaped(s, q) == IF s = <<>> THEN <<>> ELSE EscapeChar(Head(s), q) \o Escaped(Tail(s), q)

\* str() of a str
StrPlain(s) == s

\* repr() of a str
StrRepr(s) == <<QuoteOf(s)>> \o Escaped(s, QuoteOf(s)) \o <<QuoteOf(s)>>

\* {v!r} for a value that is not a dict or a list
RECURSIVE Repr(_), JoinRepr(_)
Repr(v) ==
    CASE v.t = "int" -> IntRepr(v.n)
      [] v.t = "str" -> StrRepr(v.s)
      [] v.t = "bool" -> IF v.b THEN <<"T", "r", "u", "e">> ELSE <<"F", "a", "l", "s", "e">>
      [] v.t = "none" -> <<"N", "o", "n", "e">>
      [] v.t = "tuple" -> <<"(">> \o JoinRepr(v.items)
                            \o (IF Len(v.items) = 1 THEN <<",">> ELSE <<>>) \o <<")">>

\* ", ".join(repr(x) for x in xs)
JoinRepr(xs) ==
    IF xs = <<>> THEN <<>>
    ELSE Repr(Head(xs)) \o (IF Tail(xs) = <<>> THEN <<>> ELSE <<",", " ">> \o JoinRepr(Tail(xs)))

\* the four spaces that open both f-strings
Margin == <<" ", " ", " ", " ">>

\* the "  " added to prefix on each recursive call
IndentUnit == <<" ", " ">>

\* the ": " that closes both f-strings
Separator == <<":", " ">>

\* the same with enumerate(obj, 1)
LabelFromOne(obj, i) ==
    IF IsDict(obj) THEN StrRepr(Entries(obj)[i].k)
    ELSE <<"[">> \o IntRepr(Entries(obj)[i].k + 1) \o <<"]">>

\* {k!r} for a dict entry, [{i}] for a list element
Label(obj, i) ==
    IF IsDict(obj) THEN StrRepr(Entries(obj)[i].k)
    ELSE <<"[">> \o IntRepr(Entries(obj)[i].k) \o <<"]">>

\* the same without {prefix}
LineHeadNoPrefix(obj, i, prefix) == Margin \o Label(obj, i) \o Separator

\* f"    {prefix}{k!r}: " and f"    {prefix}[{i}]: "
LineHead(obj, i, prefix) == Margin \o prefix \o Label(obj, i) \o Separator

\* prefix + " "
ChildPrefixOneSpace(prefix) == prefix \o <<" ">>

\* prefix + "  "
ChildPrefix(prefix) == prefix \o IndentUnit

\* the default of the prefix parameter
DefaultPrefix == <<>>

(***************************************************************************)
(* References into the argument: a frame's obj is the sub-object of the    *)
(* argument reached by a path of loop positions (Python passes the child   *)
(* by reference, so the frame sees the caller's object, not a copy).       *)
(***************************************************************************)
RECURSIVE Deref(_, _)
Deref(v, path) == IF path = <<>> THEN v ELSE Deref(Item(v, Head(path)), Tail(path))

\* obj of a frame
ObjOf(f) == Deref(input, f.path)

Top == stack[Len(stack)]

Frame(path, i, prefix, pc) == [path |-> path, i |-> i, prefix |-> prefix, pc |-> pc]

(***************************************************************************)
(* The values a caller may pass.                                           *)
(***************************************************************************)
\* example, line 185
example ==
    MkDict(<<KV(<<"a">>, MkInt(1)),
             KV(<<"b">>, MkList(<<MkInt(2), MkDict(<<KV(<<"c">>, MkInt(3))>>)>>)),
             KV(<<"d">>, MkDict(<<KV(<<"e">>, MkStr(<<"e", "n", "d">>))>>))>>)

\* config, line 34
config ==
    MkDict(<<KV(<<"h", "o", "s", "t">>, MkStr(<<"0", ".", "0", ".", "0", ".", "0">>)),
             KV(<<"p", "o", "r", "t">>, MkInt(443)),
             KV(<<"s", "s", "l">>, MkBool(TRUE))>>)

\* data_unsorted, line 150: keys stored out of alphabetical order
data_unsorted ==
    MkDict(<<KV(<<"z">>, MkInt(1)), KV(<<"a">>, MkInt(2)), KV(<<"m">>, MkInt(3))>>)

EmptyDict == MkDict(<<>>)

FlatList == MkList(<<MkInt(1), MkInt(2), MkInt(3)>>)

Examples ==
    {example, config, data_unsorted, EmptyDict, FlatList,
     MkList(<<MkInt(10), MkInt(20)>>),
     MkDict(<<KV(<<"a">>, MkInt(1)), KV(<<"b">>, MkInt(2))>>),
     MkList(<<MkList(<<>>), MkDict(<<>>), MkNone, MkBool(FALSE)>>),
     MkDict(<<KV(<<"i", "t", "'", "s">>, MkStr(<<"\"", "'">>)),
              KV(<<"n">>, MkInt(0 - 12))>>)}

Scalars ==
    {MkInt(7), MkInt(0 - 3), MkStr(<<"u", "p">>), MkStr(<<>>), MkBool(TRUE), MkNone}

Leaves == {MkInt(7), MkStr(<<"u", "p">>)}

\* the j-th key of a generated dict of w entries: stored in descending order
KeyAt(j, w) == <<"k">> \o NatStr(w - j)

\* the rows of w values: all scalars, or one nested container in the first
\* or the last place among scalars, or two nested containers side by side
LeafAt(j) == IF j % 2 = 1 THEN MkInt(7) ELSE MkStr(<<"u", "p">>)

Rows(w, nested) ==
    [1..w -> Leaves]
    \cup {[j \in 1..w |-> IF j = p THEN c ELSE LeafAt(j)] : <<p, c>> \in {1, w} \X nested}
    \cup (IF w = 2 THEN {<<c, c>> : c \in nested} ELSE {})

ContainersOver(nested) ==
    UNION {UNION {{MkList(r), MkDict([j \in 1..w |-> KV(KeyAt(j, w), r[j])])}
                  : r \in Rows(w, nested)}
           : w \in 0..MaxWidth}

RECURSIVE Containers(_)
Containers(d) == IF d = 0 THEN {} ELSE ContainersOver(Containers(d - 1))

Inputs == Scalars \cup Examples \cup Containers(MaxDepth)

\* values nested d deep, dicts and lists in turn
RECURSIVE Chain(_)
Chain(d) ==
    IF d = 1 THEN MkList(<<MkInt(7)>>)
    ELSE IF d % 2 = 0
         THEN MkDict(<<KV(<<"k", "0">>, MkInt(7)), KV(<<"k", "1">>, Chain(d - 1)),
                       KV(<<"k", "2">>, MkStr(<<"u", "p">>))>>)
         ELSE MkList(<<Chain(d - 1), MkInt(7)>>)

\* as Chain(d), ending in an empty list
RECURSIVE Hollow(_)
Hollow(d) == IF d = 1 THEN MkList(<<>>) ELSE MkList(<<MkNone, Hollow(d - 1)>>)

DeepInputs == {Chain(d) : d \in 1..(StackLimit + 1)} \cup {Hollow(d) : d \in 1..(StackLimit + 1)}

\* values holding a tuple: under a key, in a list, nested, and at the top
ForeignInputs ==
    {MkDict(<<KV(<<"p">>, MkTuple(<<MkInt(1), MkInt(2)>>)), KV(<<"n">>, MkInt(3))>>),
     MkList(<<MkTuple(<<>>), MkTuple(<<MkStr(<<"a">>)>>)>>),
     MkDict(<<KV(<<"t">>, MkList(<<MkInt(7), MkTuple(<<MkNone, MkBool(TRUE)>>)>>))>>),
     MkTuple(<<MkInt(1), MkInt(2)>>)}

\* the values of the host scenario: deep ones and ones json never produces
HostInputs == Examples \cup DeepInputs \cup ForeignInputs \cup Scalars

\* the values of the repeated-call scenario
SmallInputs == Scalars \cup Examples \cup Containers(1)

(***************************************************************************)
(* State after the module is loaded: example is defined, nothing called.   *)
(***************************************************************************)
\* no second caller
NoPeer == [input |-> MkNone, pos |-> 0, active |-> FALSE]

\* no script section is running
NoEnv == [none |-> TRUE]

NoMemo == [set |-> FALSE, value |-> MkNone, output |-> <<>>, others |-> FALSE]

Init ==
    /\ input = example
    /\ stack = <<>>
    /\ out = <<>>
    /\ cur = <<>>
    /\ visited = <<>>
    /\ phase = "idle"
    /\ memo = NoMemo
    /\ calls = 0
    /\ peer = NoPeer
    /\ prog = "none"
    /\ loc = "start"
    /\ env = NoEnv
    /\ events = <<>>

\* the prefix of the last line written (a prefix kept in a module global)
RECURSIVE SpacesAfterMargin(_)
SpacesAfterMargin(line) ==
    IF line = <<>> \/ Head(line) # " " THEN <<>> ELSE <<" ">> \o SpacesAfterMargin(Tail(line))

StalePrefix ==
    IF out = <<>> THEN <<>>
    ELSE SpacesAfterMargin(SubSeq(out[Len(out)], Len(Margin) + 1, Len(out[Len(out)])))

\* the top-level call starting from the prefix the last call left behind
CallStale(v) ==
    /\ phase \in {"idle", "done"}
    /\ input' = v
    /\ stack' = <<Frame(<<>>, 1, StalePrefix, "loop")>>
    /\ out' = <<>>
    /\ cur' = <<>>
    /\ visited' = <<>>
    /\ phase' = "running"
    /\ UNCHANGED memo
    /\ calls' = 1
    /\ UNCHANGED <<peer, script>>

(***************************************************************************)
(* print_json_values(v): the top-level call (line 187 and any other        *)
(* caller).  out/cur hold the text written since this call.                *)
(***************************************************************************)
Call(v) ==
    /\ phase \in {"idle", "done"}
    /\ input' = v
    /\ stack' = <<Frame(<<>>, 1, DefaultPrefix, "loop")>>
    /\ out' = <<>>
    /\ cur' = <<>>
    /\ visited' = <<>>
    /\ phase' = "running"
    /\ UNCHANGED memo
    /\ calls' = 1
    /\ UNCHANGED <<peer, script>>

\* line 187: the script's one call, on any value
Invoke == phase = "idle" /\ \E v \in Inputs : Call(v)

\* line 187 on a deep value or on a value of another origin than json
InvokeHost == phase = "idle" /\ \E v \in HostInputs : Call(v)

\* a caller that calls again and again
InvokeSmall == \E v \in SmallInputs : Call(v)

\* lines 169 / 177: print(f"    {prefix}...: ", end="")
PrintHead ==
    /\ phase = "running"
    /\ Top.pc = "loop"
    /\ Top.i <= Width(ObjOf(Top))
    /\ cur' = cur \o LineHead(ObjOf(Top), Top.i, Top.prefix)
    /\ visited' = Append(visited, Top.path \o <<Top.i>>)
    /\ stack' = [stack EXCEPT ![Len(stack)].pc = "branch"]
    /\ UNCHANGED <<input, out, phase, memo>>
    /\ UNCHANGED calls
    /\ UNCHANGED <<peer, script>>

\* the host has room for one more frame
HasRoom == Len(stack) < StackLimit

\* print(); print_json_values(obj, prefix + "  "): recursion on obj itself
DescendSelf ==
    /\ phase = "running"
    /\ Top.pc = "branch"
    /\ IsContainer(Item(ObjOf(Top), Top.i))
    /\ out' = Append(out, cur)
    /\ cur' = <<>>
    /\ stack' = Append(stack, Frame(Top.path, 1, ChildPrefix(Top.prefix), "loop"))
    /\ UNCHANGED <<input, visited, phase, memo>>
    /\ calls' = calls + 1
    /\ UNCHANGED <<peer, script>>

\* lines 171-172 / 179-180: print(); print_json_values(v, prefix + "  ")
Descend ==
    /\ phase = "running"
    /\ Top.pc = "branch"
    /\ IsContainer(Item(ObjOf(Top), Top.i))
    /\ HasRoom
    /\ out' = Append(out, cur)
    /\ cur' = <<>>
    /\ stack' = Append(stack, Frame(Top.path \o <<Top.i>>, 1, ChildPrefix(Top.prefix), "loop"))
    /\ UNCHANGED <<input, visited, phase, memo>>
    /\ calls' = calls + 1
    /\ UNCHANGED <<peer, script>>

\* lines 171-172 / 179-180 with no room left: print(), then the call raises
\* RecursionError, which no frame catches
Overflow ==
    /\ phase = "running"
    /\ Top.pc = "branch"
    /\ IsContainer(Item(ObjOf(Top), Top.i))
    /\ ~HasRoom
    /\ out' = Append(out, cur)
    /\ cur' = <<>>
    /\ stack' = <<>>
    /\ phase' = "aborted"
    /\ UNCHANGED <<input, visited, memo, calls, peer, script>>

\* v with the value at path replaced by x
RECURSIVE Assign(_, _, _)
Assign(v, path, x) ==
    IF path = <<>> THEN x
    ELSE IF IsDict(v)
         THEN MkDict([v.pairs EXCEPT ![Head(path)] = KV(@.k, Assign(@.v, Tail(path), x))])
         ELSE MkList([v.elems EXCEPT ![Head(path)] = Assign(@, Tail(path), x)])

\* print(f"{v!r}") followed by obj[k] = None
PrintScalarClearing ==
    /\ phase = "running"
    /\ Top.pc = "branch"
    /\ ~IsContainer(Item(ObjOf(Top), Top.i))
    /\ out' = Append(out, cur \o Repr(Item(ObjOf(Top), Top.i)))
    /\ cur' = <<>>
    /\ stack' = [stack EXCEPT ![Len(stack)] = Frame(Top.path, Top.i + 1, Top.prefix, "loop")]
    /\ input' = Assign(input, Top.path \o <<Top.i>>, MkNone)
    /\ UNCHANGED <<visited, phase, memo>>
    /\ UNCHANGED calls
    /\ UNCHANGED <<peer, script>>

\* print(f"{v!r}") for the JSON scalar types only, print() for any other
PrintScalarKnownOnly ==
    /\ phase = "running"
    /\ Top.pc = "branch"
    /\ ~IsContainer(Item(ObjOf(Top), Top.i))
    /\ out' = Append(out, cur \o (IF Item(ObjOf(Top), Top.i).t = "tuple" THEN <<>>
                                   ELSE Repr(Item(ObjOf(Top), Top.i))))
    /\ cur' = <<>>
    /\ stack' = [stack EXCEPT ![Len(stack)] = Frame(Top.path, Top.i + 1, Top.prefix, "loop")]
    /\ UNCHANGED <<input, visited, phase, memo>>
    /\ UNCHANGED calls
    /\ UNCHANGED <<peer, script>>

\* the scalar printed by a recursive call of its own
PrintScalarByCall ==
    /\ phase = "running"
    /\ Top.pc = "branch"
    /\ ~IsContainer(Item(ObjOf(Top), Top.i))
    /\ out' = Append(out, cur \o Repr(Item(ObjOf(Top), Top.i)))
    /\ cur' = <<>>
    /\ stack' = [stack EXCEPT ![Len(stack)] = Frame(Top.path, Top.i + 1, Top.prefix, "loop")]
    /\ UNCHANGED <<input, visited, phase, memo>>
    /\ calls' = calls + 1
    /\ UNCHANGED <<peer, script>>

\* lines 174 / 182: print(f"{v!r}")
PrintScalar ==
    /\ phase = "running"
    /\ Top.pc = "branch"
    /\ ~IsContainer(Item(ObjOf(Top), Top.i))
    /\ out' = Append(out, cur \o Repr(Item(ObjOf(Top), Top.i)))
    /\ cur' = <<>>
    /\ stack' = [stack EXCEPT ![Len(stack)] = Frame(Top.path, Top.i + 1, Top.prefix, "loop")]
    /\ UNCHANGED <<input, visited, phase, memo>>
    /\ UNCHANGED calls
    /\ UNCHANGED <<peer, script>>

\* the loop stopping one entry early
ExhaustedEarly == phase = "running" /\ Top.pc = "loop" /\ Top.i >= Width(ObjOf(Top))

\* the loop (or neither isinstance branch) is over in the current frame
Exhausted == phase = "running" /\ Top.pc = "loop" /\ Top.i > Width(ObjOf(Top))

\* return from a recursive call with the caller's loop skipping an entry
ReturnSkipping ==
    /\ Exhausted
    /\ Len(stack) > 1
    /\ stack' = [SubSeq(stack, 1, Len(stack) - 1) EXCEPT ![Len(stack) - 1] =
                    Frame(@.path, @.i + 2, @.prefix, "loop")]
    /\ UNCHANGED <<input, out, cur, visited, phase, memo>>
    /\ UNCHANGED calls
    /\ UNCHANGED <<peer, script>>

\* return from a recursive call: the caller's loop moves to its next entry
Return ==
    /\ Exhausted
    /\ Len(stack) > 1
    /\ stack' = [SubSeq(stack, 1, Len(stack) - 1) EXCEPT ![Len(stack) - 1] =
                    Frame(@.path, @.i + 1, @.prefix, "loop")]
    /\ UNCHANGED <<input, out, cur, visited, phase, memo>>
    /\ UNCHANGED calls
    /\ UNCHANGED <<peer, script>>

\* a top-level call that writes an argument that is neither dict nor list
CompleteEchoing ==
    /\ Exhausted
    /\ Len(stack) = 1
    /\ stack' = <<>>
    /\ phase' = "done"
    /\ out' = IF IsContainer(input) THEN out ELSE Append(out, Margin \o Repr(input))
    /\ UNCHANGED <<input, cur, visited, memo>>
    /\ UNCHANGED calls
    /\ UNCHANGED <<peer, script>>

\* return from the top-level call after a closing print()
CompleteWithNewline ==
    /\ Exhausted
    /\ Len(stack) = 1
    /\ stack' = <<>>
    /\ phase' = "done"
    /\ out' = Append(out, cur)
    /\ UNCHANGED <<input, cur, visited, memo>>
    /\ UNCHANGED calls
    /\ UNCHANGED <<peer, script>>

\* return from the top-level call
Complete ==
    /\ Exhausted
    /\ Len(stack) = 1
    /\ stack' = <<>>
    /\ phase' = "done"
    /\ UNCHANGED <<input, out, cur, visited, memo>>
    /\ UNCHANGED calls
    /\ UNCHANGED <<peer, script>>

\* return from the top-level call; the caller may keep the text it got
CompleteRecorded ==
    /\ Exhausted
    /\ Len(stack) = 1
    /\ stack' = <<>>
    /\ phase' = "done"
    /\ memo' \in {[set |-> TRUE, value |-> input, output |-> out, others |-> FALSE],
                  [memo EXCEPT !.others = @ \/ (memo.set /\ memo.value # input)]}
    /\ UNCHANGED <<input, out, cur, visited>>
    /\ UNCHANGED calls
    /\ UNCHANGED <<peer, script>>

Walk == PrintHead \/ Descend \/ PrintScalar \/ Return \/ Complete

Next == Invoke \/ PrintHead \/ Descend \/ PrintScalar \/ Return \/ Complete

Spec == Init /\ [][Next]_vars

\* a running call is never suspended: the interpreter runs it to its return
LiveSpec == Init /\ [][Next]_vars /\ WF_vars(Walk)

NextRepeat == InvokeSmall \/ PrintHead \/ Descend \/ PrintScalar \/ Return \/ CompleteRecorded

RepeatSpec == Init /\ [][NextRepeat]_vars

(***************************************************************************)
(* A second caller in another thread.  print writes to the one standard    *)
(* output of the process, so both callers write to out/cur; the second     *)
(* caller runs the same function, taken here write by write: print(x,      *)
(* end="") is one write, print(x) is a write of x and a write of "\n".      *)
(***************************************************************************)
TextWrite(text) == [text |-> text, nl |-> FALSE]

NewlineWrite == [text |-> <<>>, nl |-> TRUE]

RECURSIVE Writes(_, _), WritesFrom(_, _, _)
Writes(obj, prefix) == WritesFrom(obj, 1, prefix)

WritesFrom(obj, i, prefix) ==
    IF i > Width(obj) THEN <<>>
    ELSE <<TextWrite(LineHead(obj, i, prefix))>>
         \o (IF IsContainer(Item(obj, i))
             THEN <<NewlineWrite>> \o Writes(Item(obj, i), ChildPrefix(prefix))
             ELSE <<TextWrite(Repr(Item(obj, i))), NewlineWrite>>)
         \o WritesFrom(obj, i + 1, prefix)

ParInputs ==
    {MkList(<<MkInt(10), MkInt(20)>>),
     MkDict(<<KV(<<"a">>, MkInt(1)), KV(<<"b">>, MkInt(2))>>),
     MkDict(<<KV(<<"k">>, MkList(<<MkInt(7)>>))>>)}

\* both callers hold their values, neither has called yet
InitPar ==
    /\ input = example
    /\ stack = <<>>
    /\ out = <<>>
    /\ cur = <<>>
    /\ visited = <<>>
    /\ phase = "idle"
    /\ memo = NoMemo
    /\ calls = 0
    /\ peer \in {[input |-> w, pos |-> 1, active |-> TRUE] : w \in ParInputs}
    /\ prog = "none"
    /\ loc = "start"
    /\ env = NoEnv
    /\ events = <<>>

InvokePar == phase = "idle" /\ \E v \in ParInputs : Call(v)

PeerDone == peer.active /\ peer.pos > Len(Writes(peer.input, DefaultPrefix))

\* a write of the second caller that replaces the open line
PeerWriteClobbering ==
    /\ peer.active
    /\ phase # "idle"
    /\ ~PeerDone
    /\ LET w == Writes(peer.input, DefaultPrefix)[peer.pos]
       IN  IF w.nl THEN out' = Append(out, cur) /\ cur' = <<>>
           ELSE cur' = w.text /\ out' = out
    /\ peer' = [peer EXCEPT !.pos = @ + 1]
    /\ UNCHANGED <<input, stack, visited, phase, memo, calls, script>>

\* the second caller's next write to the standard output
PeerWrite ==
    /\ peer.active
    /\ phase # "idle"
    /\ ~PeerDone
    /\ LET w == Writes(peer.input, DefaultPrefix)[peer.pos]
       IN  IF w.nl THEN out' = Append(out, cur) /\ cur' = <<>>
           ELSE cur' = cur \o w.text /\ out' = out
    /\ peer' = [peer EXCEPT !.pos = @ + 1]
    /\ UNCHANGED <<input, stack, visited, phase, memo, calls, script>>

NextPar ==
    InvokePar \/ PrintHead \/ Descend \/ PrintScalar \/ Return \/ Complete \/ PeerWrite

ParSpec == InitPar /\ [][NextPar]_vars

(***************************************************************************)
(* The scripts of the repository that run top to bottom: prog names the    *)
(* block being run, loc the statement reached, env the script's variables  *)
(* and events the clauses that have run, in order.                          *)
(***************************************************************************)
WalkerIdle ==
    /\ input = example
    /\ stack = <<>>
    /\ out = <<>>
    /\ cur = <<>>
    /\ visited = <<>>
    /\ phase = "idle"
    /\ memo = NoMemo
    /\ calls = 0
    /\ peer = NoPeer

\* an except clause for class clause handles an exception of class exc
Catches(clause, exc) ==
    \/ clause = exc
    \/ clause = "Exception" /\ exc # "none"
    \/ clause = "RequestException" /\ exc \in {"Timeout", "ConnectionError"}
    \/ clause = "OSError"
          /\ exc \in {"FileNotFoundError", "PermissionError", "IsADirectoryError"}
    \/ clause = "ValueError" /\ exc = "UnicodeDecodeError"

\* error_handling.py section 3: what the try body raises, the class the
\* except clause names, whether the clause ends in raise, and the class the
\* enclosing try handles
FinallyCases ==
    <<[body |-> "none", handles |-> "ValueError", reraises |-> FALSE, outer |-> "none"],
      [body |-> "ZeroDivisionError", handles |-> "ZeroDivisionError", reraises |-> FALSE,
       outer |-> "none"],
      [body |-> "ValueError", handles |-> "ValueError", reraises |-> TRUE,
       outer |-> "ValueError"]>>

FinallyPrograms ==
    {[prog |-> "finally", loc |-> "try", env |-> [case |-> c, exc |-> "none"]] :
        c \in 1..Len(FinallyCases)}

TryBody ==
    /\ prog = "finally" /\ loc = "try"
    /\ LET c == FinallyCases[env.case]
       IN  /\ env' = [env EXCEPT !.exc = c.body]
           /\ loc' = IF c.body # "none" /\ Catches(c.handles, c.body)
                     THEN "except" ELSE "finally"
    /\ events' = Append(events, "try")
    /\ UNCHANGED <<walker, peer, prog>>

ExceptClause ==
    /\ prog = "finally" /\ loc = "except"
    /\ env' = [env EXCEPT !.exc = IF FinallyCases[env.case].reraises THEN @ ELSE "none"]
    /\ loc' = "finally"
    /\ events' = Append(events, "except")
    /\ UNCHANGED <<walker, peer, prog>>

\* a finally clause that is passed over when an exception is on its way out
FinallyClauseSkipped ==
    /\ prog = "finally" /\ loc = "finally"
    /\ loc' = IF env.exc = "none" THEN "after"
              ELSE IF Catches(FinallyCases[env.case].outer, env.exc) THEN "outer"
              ELSE "crashed"
    /\ events' = IF env.exc = "none" THEN Append(events, "finally") ELSE events
    /\ UNCHANGED <<walker, peer, prog, env>>

FinallyClause ==
    /\ prog = "finally" /\ loc = "finally"
    /\ loc' = IF env.exc = "none" THEN "after"
              ELSE IF Catches(FinallyCases[env.case].outer, env.exc) THEN "outer"
              ELSE "crashed"
    /\ events' = Append(events, "finally")
    /\ UNCHANGED <<walker, peer, prog, env>>

OuterHandler ==
    /\ prog = "finally" /\ loc = "outer"
    /\ env' = [env EXCEPT !.exc = "none"]
    /\ loc' = "after"
    /\ events' = Append(events, "outer")
    /\ UNCHANGED <<walker, peer, prog>>

\* error_handling.py section 4: the variable holding the resource, the class
\* its except clause names and the value that stands for the open resource
CleanupBlocks ==
    <<[name |-> "file_handle", handles |-> "IOError", value |-> "open_file_handle"],
      [name |-> "conn", handles |-> "Exception", value |-> "connected"],
      [name |-> "client", handles |-> "Exception", value |-> "boto3_client"]>>

\* the statement of the try body that raises (the acquisition or the work
\* after it, as the commented raise shows) and the class raised
CleanupPrograms ==
    {[prog |-> "cleanup", loc |-> "acquire",
      env |-> [block |-> b, failAt |-> f, err |-> e, handle |-> "None", exc |-> "none"]] :
        b \in 1..Len(CleanupBlocks), f \in {"acquire", "work"}, e \in {"IOError", "ValueError"}}
    \cup {[prog |-> "cleanup", loc |-> "acquire",
           env |-> [block |-> b, failAt |-> "never", err |-> "none", handle |-> "None",
                    exc |-> "none"]] : b \in 1..Len(CleanupBlocks)}

\* truth value of a handle in "if handle:"
Truthy(h) == h \notin {"None", ""}

AfterRaise(block, exc) ==
    IF Catches(CleanupBlocks[block].handles, exc) THEN "handler" ELSE "release"

Acquire ==
    /\ prog = "cleanup" /\ loc = "acquire"
    /\ IF env.failAt = "acquire"
       THEN /\ env' = [env EXCEPT !.exc = env.err]
            /\ loc' = AfterRaise(env.block, env.err)
            /\ events' = events
       ELSE /\ env' = [env EXCEPT !.handle = CleanupBlocks[env.block].value]
            /\ loc' = "work"
            /\ events' = Append(events, "acquired")
    /\ UNCHANGED <<walker, peer, prog>>

Work ==
    /\ prog = "cleanup" /\ loc = "work"
    /\ IF env.failAt = "work"
       THEN /\ env' = [env EXCEPT !.exc = env.err]
            /\ loc' = AfterRaise(env.block, env.err)
       ELSE /\ env' = env
            /\ loc' = "release"
    /\ events' = Append(events, "work")
    /\ UNCHANGED <<walker, peer, prog>>

Handler ==
    /\ prog = "cleanup" /\ loc = "handler"
    /\ env' = [env EXCEPT !.exc = "none"]
    /\ loc' = "release"
    /\ events' = Append(events, "except")
    /\ UNCHANGED <<walker, peer, prog>>

\* a finally clause that closes without testing the handle
ReleaseUntested ==
    /\ prog = "cleanup" /\ loc = "release"
    /\ events' = Append(events, "released")
    /\ loc' = IF env.exc = "none" THEN "after" ELSE "crashed"
    /\ UNCHANGED <<walker, peer, prog, env>>

Release ==
    /\ prog = "cleanup" /\ loc = "release"
    /\ events' = IF Truthy(env.handle) THEN Append(events, "released") ELSE events
    /\ loc' = IF env.exc = "none" THEN "after" ELSE "crashed"
    /\ UNCHANGED <<walker, peer, prog, env>>

\* control_flow.py: max_retries = 3
max_retries == 3

\* control_flow.py: "if attempt == 2", the attempt at which the simulated
\* operation succeeds
SuccessAttempt == 2

\* the retry loop at "attempt = 0"; the attempt that succeeds is the
\* script's or any other, max_retries + 1 standing for none
RetryPrograms ==
    {[prog |-> "retry", loc |-> "while",
      env |-> [attempt |-> 0, succeedsAt |-> k, tried |-> <<>>]] :
        k \in {SuccessAttempt} \cup 1..(max_retries + 1)}

RetryTest ==
    /\ prog = "retry" /\ loc = "while"
    /\ loc' = IF env.attempt < max_retries THEN "body" ELSE "else"
    /\ UNCHANGED <<walker, peer, prog, env, events>>

\* a loop whose else clause also runs after break
RetryAttemptElseAfterBreak ==
    /\ prog = "retry" /\ loc = "body"
    /\ env' = [env EXCEPT !.attempt = @ + 1, !.tried = Append(@, env.attempt + 1)]
    /\ IF env.attempt + 1 = env.succeedsAt
       THEN events' = Append(events, "success") /\ loc' = "else"
       ELSE events' = events /\ loc' = "while"
    /\ UNCHANGED <<walker, peer, prog>>

RetryAttempt ==
    /\ prog = "retry" /\ loc = "body"
    /\ env' = [env EXCEPT !.attempt = @ + 1, !.tried = Append(@, env.attempt + 1)]
    /\ IF env.attempt + 1 = env.succeedsAt
       THEN events' = Append(events, "success") /\ loc' = "after"
       ELSE events' = events /\ loc' = "while"
    /\ UNCHANGED <<walker, peer, prog>>

RetryElse ==
    /\ prog = "retry" /\ loc = "else"
    /\ events' = Append(events, "exhausted")
    /\ loc' = "after"
    /\ UNCHANGED <<walker, peer, prog, env>>

\* control_flow.py: "while not ready and polls < 3"
MaxPolls == 3

\* control_flow.py: "if polls == 2", the poll at which the service is ready
ReadyPoll == 2

PollPrograms ==
    {[prog |-> "poll", loc |-> "while",
      env |-> [ready |-> FALSE, polls |-> 0, readyAt |-> k]] :
        k \in {ReadyPoll} \cup 1..(MaxPolls + 1)}

PollTest ==
    /\ prog = "poll" /\ loc = "while"
    /\ loc' = IF ~env.ready /\ env.polls < MaxPolls THEN "body" ELSE "check"
    /\ UNCHANGED <<walker, peer, prog, env, events>>

\* a poll that is not counted
PollUncounted ==
    /\ prog = "poll" /\ loc = "body"
    /\ env' = [env EXCEPT !.ready = (env.polls + 1 = env.readyAt)]
    /\ events' = IF env.polls + 1 = env.readyAt THEN Append(events, "ready") ELSE events
    /\ loc' = "while"
    /\ UNCHANGED <<walker, peer, prog>>

Poll ==
    /\ prog = "poll" /\ loc = "body"
    /\ env' = [env EXCEPT !.polls = @ + 1, !.ready = (env.polls + 1 = env.readyAt)]
    /\ events' = IF env.polls + 1 = env.readyAt THEN Append(events, "ready") ELSE events
    /\ loc' = "while"
    /\ UNCHANGED <<walker, peer, prog>>

PollCheck ==
    /\ prog = "poll" /\ loc = "check"
    /\ events' = IF ~env.ready THEN Append(events, "timeout") ELSE events
    /\ loc' = "after"
    /\ UNCHANGED <<walker, peer, prog, env>>

\* what requests.get(url, timeout=5) can do: hand back a response with the
\* server's status code, or raise a requests.RequestException
StatusCodes == {200, 204, 304, 404, 500, 503}

GetOutcomes ==
    {[kind |-> "response", status |-> n, exc |-> "none"] : n \in StatusCodes}
    \cup {[kind |-> "raise", status |-> 0, exc |-> e] : e \in {"Timeout", "ConnectionError"}}

\* resp.ok: raise_for_status() raises for 400..599 only
Ok(status) == ~(400 <= status /\ status <= 599)

Unset == [t |-> "unset"]

RequestPrograms ==
    {[prog |-> p, loc |-> "get", env |-> [outcome |-> o, ret |-> Unset, exc |-> "none"]] :
        p \in {"ping", "health"}, o \in GetOutcomes}

\* resp = requests.get(...) in ping_url and check_api_health
Get ==
    /\ prog \in {"ping", "health"} /\ loc = "get"
    /\ IF env.outcome.kind = "raise"
       THEN /\ env' = [env EXCEPT !.exc = env.outcome.exc]
            /\ loc' = IF Catches("RequestException", env.outcome.exc)
                      THEN "except" ELSE "crashed"
       ELSE /\ env' = env
            /\ loc' = "response"
    /\ UNCHANGED <<walker, peer, prog, events>>

PingReturn ==
    /\ prog = "ping" /\ loc = "response"
    /\ env' = [env EXCEPT !.ret = MkInt(env.outcome.status)]
    /\ loc' = "returned"
    /\ UNCHANGED <<walker, peer, prog, events>>

PingExcept ==
    /\ prog = "ping" /\ loc = "except"
    /\ env' = [env EXCEPT !.ret = MkNone, !.exc = "none"]
    /\ events' = Append(events, "Request failed")
    /\ loc' = "returned"
    /\ UNCHANGED <<walker, peer, prog>>

\* if status == 200 / elif status / else
PingBranch ==
    /\ prog = "ping" /\ loc = "returned"
    /\ events' = Append(events,
                    IF env.ret = MkInt(200) THEN "API is UP"
                    ELSE IF env.ret # MkNone /\ env.ret # MkInt(0) THEN "API returned"
                    ELSE "Request failed (timeout/connection error)")
    /\ loc' = "after"
    /\ UNCHANGED <<walker, peer, prog, env>>

HealthTest ==
    /\ prog = "health" /\ loc = "response"
    /\ env' = [env EXCEPT !.ret = MkBool(Ok(env.outcome.status))]
    /\ events' = Append(events, IF Ok(env.outcome.status) THEN "Health OK" ELSE "Health BAD")
    /\ loc' = "after"
    /\ UNCHANGED <<walker, peer, prog>>

HealthExcept ==
    /\ prog = "health" /\ loc = "except"
    /\ env' = [env EXCEPT !.ret = MkBool(FALSE), !.exc = "none"]
    /\ events' = Append(events, "Health FAIL")
    /\ loc' = "after"
    /\ UNCHANGED <<walker, peer, prog>>

\* boto3_demo.py: the four wrappers in the order the script calls them;
\* creates: boto3.client(...) is inside the try; region: region_name is
\* passed to it; result: a value of a successful call; onError: the value
\* returned by both except clauses
Wrappers ==
    <<[name |-> "get_caller_identity", creates |-> FALSE, region |-> TRUE,
       result |-> MkDict(<<KV(<<"A", "r", "n">>, MkStr(<<"a">>))>>), onError |-> MkNone],
      [name |-> "list_s3_buckets", creates |-> FALSE, region |-> TRUE,
       result |-> MkList(<<MkStr(<<"b">>)>>), onError |-> MkList(<<>>)],
      [name |-> "list_ec2_instances", creates |-> TRUE, region |-> TRUE,
       result |-> MkList(<<MkStr(<<"i">>)>>), onError |-> MkList(<<>>)],
      [name |-> "safe_describe_regions", creates |-> TRUE, region |-> FALSE,
       result |-> MkList(<<MkStr(<<"r">>)>>), onError |-> MkList(<<>>)]>>

\* boto3.client(service): without region_name and with no region configured
\* it raises botocore's NoRegionError
ClientOutcomes(w) ==
    IF ~w.creates THEN {"none"}
    ELSE IF w.region THEN {"none"} ELSE {"none", "NoRegionError"}

\* an API call on a client: a response, or an exception of botocore
ApiOutcomes == {"none", "NoCredentialsError", "ClientError", "EndpointConnectionError"}

AwsPrograms ==
    {[prog |-> "aws", loc |-> "call",
      env |-> [section |-> 1, ret |-> Unset, exc |-> "none", raised |-> "none"]]}

\* the try body of the wrapper of this section
AwsCall ==
    /\ prog = "aws" /\ loc = "call"
    /\ \E c \in ClientOutcomes(Wrappers[env.section]), o \in ApiOutcomes :
          LET e == IF c # "none" THEN c ELSE o
          IN  IF e = "none"
              THEN /\ env' = [env EXCEPT !.ret = Wrappers[env.section].result,
                                         !.raised = "none"]
                   /\ loc' = "branch"
              ELSE /\ env' = [env EXCEPT !.exc = e, !.raised = e, !.ret = Unset]
                   /\ loc' = IF Catches("NoCredentialsError", e) \/ Catches("ClientError", e)
                             THEN "except" ELSE "crashed"
    /\ UNCHANGED <<walker, peer, prog, events>>

AwsExcept ==
    /\ prog = "aws" /\ loc = "except"
    /\ env' = [env EXCEPT !.ret = Wrappers[env.section].onError, !.exc = "none"]
    /\ events' = Append(events, env.exc)
    /\ loc' = "branch"
    /\ UNCHANGED <<walker, peer, prog>>

\* if identity: / if buckets: / if instances: / if regions:
AwsBranch ==
    /\ prog = "aws" /\ loc = "branch"
    /\ events' = Append(events,
                    IF env.ret \notin {MkNone, MkList(<<>>), MkDict(<<>>)}
                    THEN "shown" ELSE "skipped")
    /\ IF env.section < Len(Wrappers)
       THEN env' = [env EXCEPT !.section = @ + 1] /\ loc' = "call"
       ELSE env' = env /\ loc' = "after"
    /\ UNCHANGED <<walker, peer, prog>>

\* the first except clause, in the order written, that handles exc; 0 if
\* none does
FirstHandler(handlers, exc) ==
    LET m == {i \in 1..Len(handlers) : Catches(handlers[i], exc)}
    IN  IF m = {} THEN 0 ELSE CHOOSE i \in m : \A j \in m : i <= j

\* error_handling.py read_config: a broad clause written first
ReadConfigHandlersBroadFirst == <<"OSError", "FileNotFoundError", "PermissionError">>

\* error_handling.py read_config: the except clauses in the order written
ReadConfigHandlers == <<"FileNotFoundError", "PermissionError", "OSError">>

\* what open(path, encoding="utf-8") and f.read() can do: give the text of
\* the file, or raise
ReadOutcomes ==
    {[exc |-> "none", content |-> c] : c \in {<<>>, <<"p", "=", "1">>}}
    \cup {[exc |-> e, content |-> <<>>] :
              e \in {"FileNotFoundError", "PermissionError", "IsADirectoryError",
                     "UnicodeDecodeError"}}

ReadConfigPrograms ==
    {[prog |-> "read_config", loc |-> "try",
      env |-> [outcome |-> o, ret |-> Unset, exc |-> "none", raised |-> "none"]] :
        o \in ReadOutcomes}

\* with open(path, encoding="utf-8") as f: return f.read()
ReadConfigBody ==
    /\ prog = "read_config" /\ loc = "try"
    /\ IF env.outcome.exc = "none"
       THEN /\ env' = [env EXCEPT !.ret = MkStr(env.outcome.content)]
            /\ loc' = "after"
       ELSE /\ env' = [env EXCEPT !.exc = env.outcome.exc, !.raised = env.outcome.exc]
            /\ loc' = IF FirstHandler(ReadConfigHandlers, env.outcome.exc) = 0
                      THEN "crashed" ELSE "except"
    /\ UNCHANGED <<walker, peer, prog, events>>

ReadConfigExcept ==
    /\ prog = "read_config" /\ loc = "except"
    /\ events' = Append(events, ReadConfigHandlers[FirstHandler(ReadConfigHandlers, env.exc)])
    /\ env' = [env EXCEPT !.ret = MkNone, !.exc = "none"]
    /\ loc' = "after"
    /\ UNCHANGED <<walker, peer, prog>>

\* a float, kept as twice its value; kind is "finite", "nan" or "inf"
MkFloat(kind, twice) == [t |-> "float", kind |-> kind, twice |-> twice]

IsDigitChar(c) == \E d \in 0..9 : Digit(d) = c

DigitValue(c) == CHOOSE d \in 0..9 : Digit(d) = c

RECURSIVE NatOf(_)
NatOf(s) ==
    IF s = <<>> THEN 0
    ELSE NatOf(SubSeq(s, 1, Len(s) - 1)) * 10 + DigitValue(s[Len(s)])

\* str.strip() as int() applies it to its argument
RECURSIVE Strip(_)
Strip(s) ==
    IF s = <<>> THEN s
    ELSE IF Head(s) = " " THEN Strip(Tail(s))
    ELSE IF s[Len(s)] = " " THEN Strip(SubSeq(s, 1, Len(s) - 1))
    ELSE s

Returned(n) == [exc |-> "none", n |-> n]

Raised(e) == [exc |-> e, n |-> 0]

\* int(text): blanks around, one sign, then digits
IntOfText(text) ==
    LET t == Strip(text)
        signed == t # <<>> /\ Head(t) \in {"+", "-"}
        digits == IF signed THEN Tail(t) ELSE t
    IN  IF digits = <<>> \/ \E j \in 1..Len(digits) : ~IsDigitChar(digits[j])
        THEN Raised("ValueError")
        ELSE IF signed /\ Head(t) = "-" THEN Returned(0 - NatOf(digits))
        ELSE Returned(NatOf(digits))

\* int(port_value)
IntOf(v) ==
    IF v.t = "str" THEN IntOfText(v.s)
    ELSE IF v.t = "int" THEN Returned(v.n)
    ELSE IF v.t = "bool" THEN Returned(IF v.b THEN 1 ELSE 0)
    ELSE IF v.t = "float"
         THEN IF v.kind = "nan" THEN Raised("ValueError")
              ELSE IF v.kind = "inf" THEN Raised("OverflowError")
              ELSE IF v.twice >= 0 THEN Returned(v.twice \div 2)
              ELSE Returned(0 - ((0 - v.twice) \div 2))
    ELSE Raised("TypeError")

\* error_handling.py parse_port: the except clauses in the order written
ParsePortHandlers == <<"ValueError", "TypeError">>

PortValues ==
    {MkStr(<<"8", "0", "8", "0">>), MkStr(<<" ", "4", "2", " ">>), MkStr(<<"-", "1">>),
     MkStr(<<"+", "7">>), MkStr(<<"0">>), MkStr(<<>>), MkStr(<<" ">>), MkStr(<<"-">>),
     MkStr(<<"4", "x">>), MkStr(<<"4", " ", "2">>), MkStr(<<"h", "t", "t", "p">>),
     MkInt(443), MkInt(0 - 5), MkBool(TRUE), MkNone, MkList(<<>>),
     MkList(<<MkInt(80)>>), MkFloat("finite", 7), MkFloat("finite", 0 - 7),
     MkFloat("nan", 0), MkFloat("inf", 0)}

ParsePortPrograms ==
    {[prog |-> "parse_port", loc |-> "try",
      env |-> [arg |-> v, ret |-> Unset, exc |-> "none", raised |-> "none"]] :
        v \in PortValues}

\* return int(port_value)
ParsePortBody ==
    /\ prog = "parse_port" /\ loc = "try"
    /\ LET r == IntOf(env.arg)
       IN  IF r.exc = "none"
           THEN /\ env' = [env EXCEPT !.ret = MkInt(r.n)]
                /\ loc' = "after"
           ELSE /\ env' = [env EXCEPT !.exc = r.exc, !.raised = r.exc]
                /\ loc' = IF FirstHandler(ParsePortHandlers, r.exc) = 0
                          THEN "crashed" ELSE "except"
    /\ UNCHANGED <<walker, peer, prog, events>>

ParsePortExcept ==
    /\ prog = "parse_port" /\ loc = "except"
    /\ events' = Append(events, ParsePortHandlers[FirstHandler(ParsePortHandlers, env.exc)])
    /\ env' = [env EXCEPT !.ret = MkNone, !.exc = "none"]
    /\ loc' = "after"
    /\ UNCHANGED <<walker, peer, prog>>

Programs ==
    FinallyPrograms \cup CleanupPrograms \cup RetryPrograms \cup PollPrograms
    \cup RequestPrograms \cup AwsPrograms \cup ReadConfigPrograms \cup ParsePortPrograms

InitScript ==
    /\ WalkerIdle
    /\ events = <<>>
    /\ \E p \in Programs : prog = p.prog /\ loc = p.loc /\ env = p.env

NextScript ==
    \/ TryBody \/ ExceptClause \/ FinallyClause \/ OuterHandler
    \/ Acquire \/ Work \/ Handler \/ Release
    \/ RetryTest \/ RetryAttempt \/ RetryElse
    \/ PollTest \/ Poll \/ PollCheck
    \/ Get \/ PingReturn \/ PingExcept \/ PingBranch \/ HealthTest \/ HealthExcept
    \/ AwsCall \/ AwsExcept \/ AwsBranch
    \/ ReadConfigBody \/ ReadConfigExcept \/ ParsePortBody \/ ParsePortExcept

ScriptSpec == InitScript /\ [][NextScript]_vars

\* a script that is running runs its next statement
ScriptLiveSpec == InitScript /\ [][NextScript]_vars /\ WF_vars(NextScript)

NextHost ==
    InvokeHost \/ PrintHead \/ Descend \/ Overflow \/ PrintScalar \/ Return \/ Complete

HostSpec == Init /\ [][NextHost]_vars

(***************************************************************************)
(* Vocabulary of the properties.                                           *)
(***************************************************************************)
Done == phase = "done"

Spaces(n) == [j \in 1..n |-> " "]

Front(p) == SubSeq(p, 1, Len(p) - 1)

Last(p) == p[Len(p)]

StartsWith(line, h) == Len(line) >= Len(h) /\ SubSeq(line, 1, Len(h)) = h

EndsWith(line, h) == Len(line) >= Len(h) /\ SubSeq(line, Len(line) - Len(h) + 1, Len(line)) = h

\* the i-th stored value of a mapping or sequence, and its size
StoredItem(v, i) == IF IsDict(v) THEN v.pairs[i].v ELSE v.elems[i]

StoredWidth(v) == IF IsDict(v) THEN Len(v.pairs) ELSE IF IsList(v) THEN Len(v.elems) ELSE 0

RECURSIVE StoredAt(_, _)
StoredAt(v, path) ==
    IF path = <<>> THEN v ELSE StoredAt(StoredItem(v, Head(path)), Tail(path))

\* the quoted key of the i-th stored entry, the bracketed index counted from 0
StoredLabel(v, i) ==
    IF IsDict(v) THEN StrRepr(v.pairs[i].k) ELSE <<"[">> \o IntRepr(i - 1) \o <<"]">>

\* the paths of the scalars reachable in v (<<>> is v itself)
RECURSIVE ScalarPaths(_)
ScalarPaths(v) ==
    IF ~IsContainer(v) THEN {<<>>}
    ELSE UNION {{<<i>> \o p : p \in ScalarPaths(StoredItem(v, i))} : i \in 1..StoredWidth(v)}

\* a line carries a literal when text follows its ": "
CarriesLiteral(line) == ~EndsWith(line, Separator)

LiteralLines == {k \in 1..Len(out) : CarriesLiteral(out[k])}

\* line k was emitted for the entry at path visited[k]
ParentOf(k) == StoredAt(input, Front(visited[k]))

EntryOf(k) == StoredItem(ParentOf(k), Last(visited[k]))

DepthOf(k) == Len(visited[k]) - 1

RenderedOnce(p) ==
    /\ Cardinality({k \in 1..Len(out) : visited[k] = p}) = 1
    /\ \A k \in 1..Len(out) :
          visited[k] = p => /\ CarriesLiteral(out[k])
                            /\ EndsWith(out[k], Separator \o Repr(StoredAt(input, p)))

Complete_C1 ==
    /\ Cardinality(LiteralLines) = Cardinality(ScalarPaths(input))
    /\ \A p \in ScalarPaths(input) : RenderedOnce(p)

\* C1 as stated: after the walk of any JSON value, the lines that carry a
\* scalar literal are as many as the scalars reachable in the input, and each
\* reachable scalar is rendered exactly once.
C1_Original == Done => Cardinality(LiteralLines) = Cardinality(ScalarPaths(input))

\* C1 amended: after the walk of a mapping or a sequence, the lines that carry
\* a scalar literal are as many as the scalars reachable in the input, and
\* each reachable scalar is rendered on exactly one line, with its literal.
C1_Completeness == Done /\ IsContainer(input) => Complete_C1

C1_Witness ==
    /\ Done
    /\ IsContainer(input)
    /\ Cardinality(ScalarPaths(input)) >= 3
    /\ \E p \in ScalarPaths(input) : Len(p) >= 3
    /\ \E k \in 1..Len(out) : ~CarriesLiteral(out[k])

\* the lines emitted so far for the entries of the container at path q
ChildLines(q) == {k \in 1..Len(visited) : Front(visited[k]) = q}

\* C2: within one container the entries' lines are emitted in stored order
\* (mapping) or ascending index order from 0 (sequence): of two siblings the
\* earlier one's line comes first, the lines emitted so far stand for the
\* first entries without a gap, and each line bears its own entry's label.
C2_OrderPreserved ==
    /\ \A k, l \in 1..Len(visited) :
          k < l /\ Front(visited[k]) = Front(visited[l])
             => Last(visited[k]) < Last(visited[l])
    /\ \A k \in 1..Len(visited) :
          /\ {Last(visited[l]) : l \in {m \in ChildLines(Front(visited[k])) : m <= k}}
                = 1..Last(visited[k])
          /\ LET line == IF k <= Len(out) THEN out[k] ELSE cur
                 lab == StoredLabel(ParentOf(k), Last(visited[k])) \o Separator
             IN  SubSeq(line, Len(Margin) + 2 * DepthOf(k) + 1,
                        Len(Margin) + 2 * DepthOf(k) + Len(lab)) = lab
    /\ Done => \A k \in 1..Len(visited) :
                  Cardinality(ChildLines(Front(visited[k]))) = StoredWidth(ParentOf(k))

C2_Witness ==
    /\ Done
    /\ input = data_unsorted
    /\ Len(out) = 3
    /\ StartsWith(out[1], Margin \o <<"'", "z", "'">>)
    /\ StartsWith(out[2], Margin \o <<"'", "a", "'">>)

\* the spaces between the margin and the label of a line
RECURSIVE LeadingSpaces(_)
LeadingSpaces(line) ==
    IF line = <<>> \/ Head(line) # " " THEN 0 ELSE 1 + LeadingSpaces(Tail(line))

\* C3: in a walk started with the empty prefix, the frame at depth d holds a
\* prefix of exactly d two-space units and every line of an entry at depth d
\* carries exactly that prefix (between the fixed margin and the label), so
\* siblings share it before and after a descent.
C3_Indentation ==
    /\ \A j \in 1..Len(stack) : stack[j].prefix = Spaces(2 * (j - 1))
    /\ \A k \in 1..Len(visited) :
          LET line == IF k <= Len(out) THEN out[k] ELSE cur
          IN  /\ StartsWith(line, Margin \o Spaces(Len(IndentUnit) * DepthOf(k)))
              /\ LeadingSpaces(line) - Len(Margin) = Len(IndentUnit) * DepthOf(k)

C3_Witness ==
    /\ Done
    /\ \E k, l, m \in 1..Len(out) :
          /\ k < l /\ l < m
          /\ Front(visited[k]) = Front(visited[m])
          /\ DepthOf(l) = DepthOf(k) + 1
    /\ \E n \in 1..Len(out) : DepthOf(n) = 2

\* C4 as stated: the example renders as seven lines without margin and with
\* keys and text values unquoted.
C4_Original ==
    Done /\ input = example =>
        out = << <<"a", ":", " ", "1">>,
                 <<"b", ":", " ">>,
                 <<" ", " ", "[", "0", "]", ":", " ", "2">>,
                 <<" ", " ", "[", "1", "]", ":", " ">>,
                 <<" ", " ", " ", " ", "c", ":", " ", "3">>,
                 <<"d", ":", " ">>,
                 <<" ", " ", "e", ":", " ", "e", "n", "d">> >>

\* C4 amended: the example renders as exactly seven lines, in this order, each
\* behind the fixed four-space margin and with keys and text values in their
\* quoted literal form: `    'a': 1`, `    'b': `, `      [0]: 2`,
\* `      [1]: `, `        'c': 3`, `    'd': `, `      'e': 'end'`.
C4_NestedExample ==
    Done /\ input = example =>
        out = << Margin \o <<"'", "a", "'", ":", " ", "1">>,
                 Margin \o <<"'", "b", "'", ":", " ">>,
                 Margin \o <<" ", " ", "[", "0", "]", ":", " ", "2">>,
                 Margin \o <<" ", " ", "[", "1", "]", ":", " ">>,
                 Margin \o <<" ", " ", " ", " ", "'", "c", "'", ":", " ", "3">>,
                 Margin \o <<"'", "d", "'", ":", " ">>,
                 Margin \o <<" ", " ", "'", "e", "'", ":", " ", "'", "e", "n", "d", "'">> >>

C4_Witness == Done /\ input = example /\ Len(out) = 7 /\ cur = <<>>

\* the text of line k: a finished line of out, or the line being written
LineText(k) == IF k <= Len(out) THEN out[k] ELSE cur

\* line k is finished
Finished(k) == k <= Len(out)

\* the key as written in the spec's line form: the bare key, the bare index
BareLabel(obj, i) ==
    IF IsDict(obj) THEN obj.pairs[i].k ELSE <<"[">> \o IntRepr(i - 1) \o <<"]">>

\* C5 as stated: the line of an entry starts with <prefix><key>: (for a
\* sequence element <prefix>[<i>]: ), the prefix being the frame's.
C5_Original ==
    \A k \in 1..Len(visited) :
        StartsWith(LineText(k),
                   Spaces(2 * DepthOf(k)) \o BareLabel(ParentOf(k), Last(visited[k])) \o Separator)

\* C5 amended: for each entry of a mapping the walker emits one line that
\* starts with the fixed four-space margin, the prefix and the key's quoted
\* literal followed by ": "; a scalar value's literal is appended to that
\* line, and for a mapping or sequence the line ends right after ": " and the
\* value is rendered by a recursive call with prefix + two spaces.  Sequence
\* elements are handled the same way with margin, prefix and [<i>]: .
C5_LineForm ==
    /\ \A k \in 1..Len(visited) :
          LET head == Margin \o Spaces(2 * DepthOf(k))
                         \o StoredLabel(ParentOf(k), Last(visited[k])) \o <<":", " ">>
          IN  /\ StartsWith(LineText(k), head)
              /\ Finished(k) /\ IsContainer(EntryOf(k)) => out[k] = head
              /\ Finished(k) /\ ~IsContainer(EntryOf(k)) => out[k] = head \o Repr(EntryOf(k))
              /\ ~Finished(k) => cur = head
    /\ \A j \in 2..Len(stack) :
          /\ stack[j].prefix = stack[j - 1].prefix \o <<" ", " ">>
          /\ stack[j].path = stack[j - 1].path \o <<stack[j - 1].i>>
          /\ IsContainer(ObjOf(stack[j]))
          /\ stack[j - 1].pc = "branch"

C5_Witness ==
    /\ phase = "running"
    /\ Len(stack) = 2
    /\ IsDict(ObjOf(stack[1]))
    /\ IsList(ObjOf(stack[2]))
    /\ Top.i = 2
    /\ Top.pc = "branch"
    /\ Len(out) = 3

IsFlatList(v) == IsList(v) /\ \A i \in 1..Len(v.elems) : ~IsContainer(v.elems[i])

\* C6 as stated: a sequence of n scalars renders as n lines, the i-th being
\* [i]: and the element's literal; [1,2,3] gives `[0]: 1`, `[1]: 2`, `[2]: 3`.
C6_Original ==
    Done /\ IsFlatList(input) =>
        /\ Len(out) = Len(input.elems)
        /\ \A i \in 1..Len(out) :
              out[i] = <<"[">> \o IntRepr(i - 1) \o <<"]", ":", " ">> \o Repr(input.elems[i])

\* C6 amended: a sequence of n scalars renders as exactly n lines, the i-th
\* being the four-space margin, [i]: and the element's literal; [1,2,3] gives
\* `    [0]: 1`, `    [1]: 2`, `    [2]: 3`.
C6_FlatSequence ==
    /\ Done /\ IsFlatList(input) =>
          /\ Len(out) = Len(input.elems)
          /\ \A i \in 1..Len(out) :
                out[i] = Margin \o <<"[">> \o IntRepr(i - 1) \o <<"]", ":", " ">>
                            \o Repr(input.elems[i])
    /\ Done /\ input = FlatList =>
          out = << <<" ", " ", " ", " ", "[", "0", "]", ":", " ", "1">>,
                   <<" ", " ", " ", " ", "[", "1", "]", ":", " ", "2">>,
                   <<" ", " ", " ", " ", "[", "2", "]", ":", " ", "3">> >>

C6_Witness == Done /\ input = FlatList /\ Len(out) = 3

\* C7: rendering the empty mapping at the top level emits no lines at all,
\* neither a finished line nor the start of one, at any point of the call.
C7_EmptyMapping == input = EmptyDict /\ phase # "idle" => out = <<>> /\ cur = <<>>

C7_Witness == Done /\ input = EmptyDict /\ visited = <<>>

\* C8: the walker never mutates its input: no step of a running call changes
\* the argument or anything nested in it; the steps change only the text
\* written and the call stack.
C8_InputUnchanged == [][phase = "running" => input' = input]_vars

C8_Witness ==
    /\ Done
    /\ input = config
    /\ Len(out) = 3

\* C9: two renderings of the same value produce identical output, whatever
\* was rendered before or between them: a call on a value rendered earlier
\* writes, line by line, the text that the earlier call wrote.
C9_Deterministic ==
    memo.set /\ memo.value = input =>
        /\ phase = "running" => Len(out) <= Len(memo.output) /\
                                out = SubSeq(memo.output, 1, Len(out))
        /\ Done => out = memo.output

C9_Witness ==
    /\ Done
    /\ memo.set
    /\ memo.others
    /\ memo.value = input
    /\ Len(out) >= 4

\* the steps a call on v takes, and those of the loop from entry i on
RECURSIVE Steps(_), StepsFrom(_, _)
Steps(v) == 1 + StepsFrom(v, 1)

StepsFrom(v, i) ==
    IF i > StoredWidth(v) THEN 0
    ELSE 2 + (IF IsContainer(StoredItem(v, i)) THEN Steps(StoredItem(v, i)) ELSE 0)
           + StepsFrom(v, i + 1)

FrameRank(j) ==
    LET f == stack[j]
        obj == StoredAt(input, f.path)
    IN  IF j < Len(stack) THEN 1 + StepsFrom(obj, f.i + 1)
        ELSE IF f.pc = "loop" THEN 1 + StepsFrom(obj, f.i)
        ELSE StepsFrom(obj, f.i)

RECURSIVE RankUpTo(_)
RankUpTo(j) == IF j = 0 THEN 0 ELSE FrameRank(j) + RankUpTo(j - 1)

\* the structure a running call has not yet visited, in steps
Rank == RankUpTo(Len(stack))

\* each frame above the first works on a child of the frame below it
ChildSmaller ==
    \A j \in 2..Len(stack) :
        /\ Len(stack[j].path) = Len(stack[j - 1].path) + 1
        /\ StoredAt(input, stack[j].path)
              = StoredItem(StoredAt(input, stack[j - 1].path), stack[j - 1].i)
        /\ Steps(StoredAt(input, stack[j].path)) < Steps(StoredAt(input, stack[j - 1].path))

\* C10: for every finite acyclic value the walker terminates: each recursive
\* call is made on a child of the current mapping or sequence, every step
\* strictly decreases the structure left to visit, and a running call
\* reaches its return.
C10_Terminates ==
    /\ []ChildSmaller
    /\ [][phase = "running" => Rank' < Rank /\ Rank' >= 0]_vars
    /\ (phase = "running") ~> Done

C10_Witness ==
    /\ phase = "running"
    /\ Len(stack) = 3
    /\ Top.pc = "loop"
    /\ Top.i > Width(ObjOf(Top))

\* the paths of all entries of v, at any depth
RECURSIVE EntryPaths(_)
EntryPaths(v) ==
    IF ~IsContainer(v) THEN {}
    ELSE UNION {{<<i>>} \cup {<<i>> \o p : p \in EntryPaths(StoredItem(v, i))}
                : i \in 1..StoredWidth(v)}

Max(a, b) == IF a >= b THEN a ELSE b

\* the frames a complete walk of v needs
RECURSIVE FramesNeeded(_), FramesFrom(_, _)
FramesNeeded(v) == 1 + FramesFrom(v, 1)

FramesFrom(v, i) ==
    IF i > StoredWidth(v) THEN 0
    ELSE Max(IF IsContainer(StoredItem(v, i)) THEN FramesNeeded(StoredItem(v, i)) ELSE 0,
             FramesFrom(v, i + 1))

WholeRendered ==
    /\ cur = <<>>
    /\ Len(out) = Cardinality(EntryPaths(input))
    /\ {visited[k] : k \in 1..Len(visited)} = EntryPaths(input)

\* C11: a value whose nesting stays within the host's frame limit is rendered
\* whole and without error: the call is never stuck and never aborted, and it
\* returns with a line for every entry; a call is aborted only for a value
\* that needs more frames than the host allows.
C11_NoErrorWithinLimit ==
    /\ phase = "running" =>
          ENABLED (PrintHead \/ Descend \/ Overflow \/ PrintScalar \/ Return \/ Complete)
    /\ FramesNeeded(input) <= StackLimit => phase # "aborted"
    /\ phase = "aborted" => FramesNeeded(input) > StackLimit /\ calls = StackLimit
    /\ Done => WholeRendered /\ FramesNeeded(input) <= StackLimit

C11_Witness ==
    /\ Done
    /\ FramesNeeded(input) = StackLimit
    /\ calls = StackLimit
    /\ Len(out) >= StackLimit

\* a value of none of the types json produces
IsForeign(v) == v.t = "tuple"

\* C12: a value of an unrecognized type met as a mapping value or sequence
\* element does not make the walker fail: it is written on its entry's line
\* through the generic conversion to text, as a scalar is, at any depth.
C12_ForeignRendered ==
    /\ \A k \in 1..Len(out) :
          IsForeign(EntryOf(k)) =>
              out[k] = Margin \o Spaces(2 * DepthOf(k))
                          \o StoredLabel(ParentOf(k), Last(visited[k])) \o <<":", " ">>
                          \o Repr(EntryOf(k))
    /\ (\E p \in EntryPaths(input) : IsForeign(StoredAt(input, p))) => phase # "aborted"
    /\ Done => \A p \in EntryPaths(input) :
                  IsForeign(StoredAt(input, p)) => \E k \in 1..Len(out) : visited[k] = p

C12_Witness ==
    /\ Done
    /\ \E k \in 1..Len(out) : IsForeign(EntryOf(k)) /\ DepthOf(k) = 1
    /\ \E k \in 1..Len(out) : EndsWith(out[k], <<"(", "N", "o", "n", "e", ",", " ", "T", "r", "u", "e", ")">>)

\* the mappings and sequences nested inside v
ContainersInside(v) == {p \in EntryPaths(v) : IsContainer(StoredAt(v, p))}

\* C14: the walker recurses only into mappings and sequences: a scalar entry
\* is written by the enclosing call and causes no call, so the invocations of
\* one walk are one plus the mappings and sequences nested in the value.
C14_CallsCount ==
    /\ phase = "running" =>
          calls = 1 + Cardinality({k \in 1..Len(out) : IsContainer(EntryOf(k))})
    /\ \A j \in 2..Len(stack) : IsContainer(StoredAt(input, stack[j].path))
    /\ calls >= Len(stack)
    /\ Done => calls = 1 + Cardinality(ContainersInside(input))

C14_Witness ==
    /\ Done
    /\ calls >= 3
    /\ Cardinality(ScalarPaths(input)) > calls

\* the lines a sequence of writes leaves on an empty output
RECURSIVE LinesOf(_, _, _)
LinesOf(ws, lines, open) ==
    IF ws = <<>> THEN lines
    ELSE IF Head(ws).nl THEN LinesOf(Tail(ws), Append(lines, open), <<>>)
    ELSE LinesOf(Tail(ws), lines, open \o Head(ws).text)

\* what a call on v writes when it runs alone
LinesAlone(v) == LinesOf(Writes(v, <<>>), <<>>, <<>>)

\* lines is made of the lines of a and of b, each in its order
RECURSIVE IsMerge(_, _, _)
IsMerge(lines, a, b) ==
    IF lines = <<>> THEN a = <<>> /\ b = <<>>
    ELSE \/ a # <<>> /\ Head(lines) = Head(a) /\ IsMerge(Tail(lines), Tail(a), b)
         \/ b # <<>> /\ Head(lines) = Head(b) /\ IsMerge(Tail(lines), a, Tail(b))

RECURSIVE CharCount(_)
CharCount(lines) == IF lines = <<>> THEN 0 ELSE Len(Head(lines)) + CharCount(Tail(lines))

\* the entries of v in the order a walk reaches them
RECURSIVE EntryOrder(_), EntryOrderFrom(_, _)
EntryOrder(v) == EntryOrderFrom(v, 1)

EntryOrderFrom(v, i) ==
    IF i > StoredWidth(v) THEN <<>>
    ELSE <<<<i>>>> \o [k \in 1..Len(EntryOrder(StoredItem(v, i))) |->
                          <<i>> \o EntryOrder(StoredItem(v, i))[k]]
         \o EntryOrderFrom(v, i + 1)

BothDone == Done /\ PeerDone

\* C13 as stated: with two callers interleaved, each caller's lines are on
\* the output as they are when it runs alone.
C13_Original == BothDone => IsMerge(out, LinesAlone(input), LinesAlone(peer.input))

\* C13 amended: with two callers interleaved without synchronization, each
\* caller makes the same walk and the same writes as alone and no text is
\* lost, but the one standard output may mix the callers' text within a
\* line; a caller's rendering is as alone if the other has not written.
C13_WalkPreserved ==
    /\ Done => visited = EntryOrder(input)
    /\ Done => calls = 1 + Cardinality(ContainersInside(input))
    /\ Done /\ peer.pos = 1 => out = LinesAlone(input)
    /\ BothDone =>
          /\ cur = <<>>
          /\ Len(out) = Len(LinesAlone(input)) + Len(LinesAlone(peer.input))
          /\ CharCount(out) = CharCount(LinesAlone(input)) + CharCount(LinesAlone(peer.input))

C13_Witness ==
    /\ BothDone
    /\ \E k \in 1..Len(out) :
          /\ \A l \in 1..Len(LinesAlone(input)) : out[k] # LinesAlone(input)[l]
          /\ \A l \in 1..Len(LinesAlone(peer.input)) : out[k] # LinesAlone(peer.input)[l]
          /\ out[k] # <<>>

\* the places of an event in the log
Places(e) == {k \in 1..Len(events) : events[k] = e}

Before(a, b) == \A i \in Places(a), j \in Places(b) : i < j

\* C15: in try/except/finally the finally clause runs exactly once on every
\* path; try comes first, except runs only after an error and before
\* finally, and the outer handler sees a re-raised error only after the
\* inner finally.
C15_FinallyOnce ==
    prog = "finally" =>
        /\ Cardinality(Places("finally")) <= 1
        /\ loc \in {"after", "outer", "crashed"} => Cardinality(Places("finally")) = 1
        /\ Before("try", "except") /\ Before("try", "finally")
        /\ Before("except", "finally") /\ Before("finally", "outer")
        /\ Places("except") # {} => FinallyCases[env.case].body # "none"
        /\ Places("outer") # {} => Places("finally") # {} /\ Places("except") # {}
        /\ loc = "after" /\ FinallyCases[env.case].reraises => Places("outer") # {}
        /\ loc # "crashed"

C15_Witness ==
    prog = "finally" /\ loc = "after" /\ events = <<"try", "except", "finally", "outer">>

\* C16: in the cleanup blocks the finally clause releases the resource if
\* and only if it was acquired, on every path: work done, a handled error in
\* the work, a failed acquisition, and an error the block does not handle.
C16_ReleasedIffAcquired ==
    prog = "cleanup" =>
        /\ Cardinality(Places("released")) <= 1
        /\ Before("acquired", "released")
        /\ Places("released") # {} => Places("acquired") # {}
        /\ Places("acquired") # {} <=> env.handle # "None"
        /\ env.failAt = "acquire" => Places("released") = {} /\ env.handle = "None"
        /\ loc \in {"after", "crashed"} =>
              (Places("released") # {} <=> Places("acquired") # {})
        /\ loc = "crashed" => ~Catches(CleanupBlocks[env.block].handles, env.err)

C16_Witness ==
    /\ prog = "cleanup" /\ loc = "after" /\ env.failAt = "work"
    /\ events = <<"acquired", "work", "except", "released">>

\* C17: the retry loop makes at most max_retries attempts, numbered 1, 2, ...
\* in steps of one; it stops at the first attempt that succeeds; and the
\* else clause of the while runs if and only if the loop ended without a
\* break, that is, when no attempt succeeded.
C17_RetryLoop ==
    prog = "retry" =>
        /\ Len(env.tried) <= max_retries
        /\ \A k \in 1..Len(env.tried) : env.tried[k] = k
        /\ Places("success") # {} => Len(env.tried) = env.succeedsAt /\ loc = "after"
        /\ Places("success") = {} => Len(env.tried) < env.succeedsAt
        /\ Places("exhausted") # {} => Len(env.tried) = max_retries
        /\ loc = "after" => (Places("exhausted") # {} <=> Places("success") = {})
        /\ loc = "after" /\ env.succeedsAt <= max_retries => Places("success") # {}
        /\ Cardinality(Places("exhausted")) <= 1 /\ Cardinality(Places("success")) <= 1

C17_Witness ==
    /\ prog = "retry" /\ loc = "after" /\ env.succeedsAt = SuccessAttempt
    /\ env.tried = <<1, 2>> /\ events = <<"success">>

PollSafe ==
    prog = "poll" =>
        /\ env.polls <= MaxPolls
        /\ env.ready => env.polls = env.readyAt /\ Places("ready") # {}
        /\ ~env.ready => env.polls < env.readyAt
        /\ Places("timeout") # {} => ~env.ready /\ env.polls = MaxPolls /\ loc = "after"
        /\ loc = "after" => (Places("timeout") # {} <=> ~env.ready)

\* C18: the polling loop ends after at most 3 polls, makes no poll once the
\* service is ready, and Timeout is printed if and only if the service is
\* still not ready when the loop has ended.
C18_PollingTerminates ==
    /\ []PollSafe
    /\ [][prog = "poll" /\ env.ready => env'.polls = env.polls]_vars
    /\ (prog = "poll") ~> (prog = "poll" /\ loc = "after")

C18_Witness ==
    /\ prog = "poll" /\ loc = "after" /\ env.polls = MaxPolls /\ ~env.ready
    /\ events = <<"timeout">>

Is2xx(status) == 200 <= status /\ status <= 299

\* C19: check_api_health returns True if and only if the request completed
\* with a 2xx status, False for every other status and for every request
\* failure, and lets no RequestException out; ping_url returns the status
\* code of the response, or None on a RequestException.
C19_Original ==
    /\ prog \in {"ping", "health"} => loc # "crashed"
    /\ prog = "health" /\ loc = "after" =>
          /\ env.ret \in {MkBool(TRUE), MkBool(FALSE)}
          /\ env.ret = MkBool(TRUE) <=>
                env.outcome.kind = "response" /\ Is2xx(env.outcome.status)
    /\ prog = "ping" /\ loc \in {"returned", "after"} =>
          env.ret = IF env.outcome.kind = "response" THEN MkInt(env.outcome.status)
                    ELSE MkNone

\* C20: the AWS wrappers let no NoCredentialsError or ClientError out; on
\* either, get_caller_identity returns None and the three list functions
\* return an empty list; and the script goes on to its next section on
\* every outcome of every call.
C20_Original ==
    prog = "aws" =>
        /\ loc = "branch" /\ env.raised \in {"NoCredentialsError", "ClientError"} =>
              env.ret = IF env.section = 1 THEN MkNone ELSE MkList(<<>>)
        /\ env.exc \in {"NoCredentialsError", "ClientError"} => loc = "except"
        /\ loc # "crashed"

OSErrors == {"FileNotFoundError", "PermissionError", "IsADirectoryError"}

\* the text is an int as repr writes it: no blanks, no plus sign
Canonical(text) == ~Has(text, " ") /\ ~Has(text, "+")

\* C21: read_config returns the file's content on success and None, without
\* raising, on FileNotFoundError, PermissionError and any other OSError, the
\* most specific clause taking the error; parse_port returns the integer on
\* success and None, without raising, on ValueError and TypeError.
C21_HandledReturnsNone ==
    /\ prog = "read_config" =>
          /\ loc = "after" /\ env.outcome.exc = "none" =>
                env.ret = MkStr(env.outcome.content) /\ events = <<>>
          /\ loc = "after" /\ env.outcome.exc \in {"FileNotFoundError", "PermissionError"} =>
                env.ret = MkNone /\ events = <<env.outcome.exc>>
          /\ loc = "after" /\ env.outcome.exc = "IsADirectoryError" =>
                env.ret = MkNone /\ events = <<"OSError">>
          /\ env.outcome.exc \in OSErrors \cup {"none"} => loc # "crashed"
          /\ env.outcome.exc \in OSErrors /\ loc = "try" => ENABLED ReadConfigBody
    /\ prog = "parse_port" =>
          /\ env.raised \in {"ValueError", "TypeError"} =>
                /\ loc # "crashed"
                /\ loc = "after" => env.ret = MkNone /\ events = <<env.raised>>
          /\ loc = "after" /\ env.raised = "none" =>
                /\ env.ret.t = "int" /\ events = <<>>
                /\ env.arg.t = "int" => env.ret = env.arg
                /\ env.arg.t = "str" /\ Canonical(env.arg.s) => env.arg.s = IntRepr(env.ret.n)
          /\ loc = "after" /\ env.arg.t \in {"none", "list"} => events = <<"TypeError">>
          /\ loc = "after" /\ env.arg.t = "str" /\ env.ret = MkNone => events = <<"ValueError">>
          /\ loc = "crashed" => env.raised \notin {"ValueError", "TypeError"}

C21_Witness ==
    /\ prog = "read_config" /\ loc = "after"
    /\ env.outcome.exc = "PermissionError"
    /\ env.ret = MkNone /\ events = <<"PermissionError">>

\* C22: called with a top-level value that is neither a mapping nor a
\* sequence (a scalar, or a value of an unrecognized type), the walker
\* writes nothing, visits nothing, makes no recursive call and returns
\* normally.
C22_TopLevelScalarSilent ==
    phase # "idle" /\ input.t \notin {"dict", "list"} =>
        /\ out = <<>> /\ cur = <<>> /\ visited = <<>>
        /\ calls = 1
        /\ phase \in {"running", "done"}
        /\ phase = "running" => Len(stack) = 1 /\ ENABLED Complete
        /\ phase = "done" => stack = <<>>

C22_Witness ==
    /\ Done
    /\ input = MkStr(<<"u", "p">>)
    /\ out = <<>> /\ cur = <<>>

====
